---- MODULE Spec2Model ----
(***************************************************************************)
(* The development-server proxy rule of vite.config.ts:                    *)
(*                                                                         *)
(*   server.proxy['/api'] = { target, changeOrigin: true,                  *)
(*                            rewrite: (path) => path.replace(/^\/api/,''),*)
(*                            secure: true }                               *)
(*                                                                         *)
(* The only code of the rule that runs on a request is `rewrite`, a pure   *)
(* string function.  A string is modelled as a sequence of one-character   *)
(* strings; String.prototype.replace with a non-global regular expression  *)
(* is modelled by what it does: search for the leftmost match, splice the  *)
(* replacement in its place, return the input unchanged when nothing       *)
(* matches.                                                                *)
(***************************************************************************)
EXTENDS Naturals, Sequences, FiniteSets

VARIABLES path, result, called

vars == <<path, result, called>>

----------------------------------------------------------------------------
(* Request urls the rewrite function is applied to. *)

\* How many tokens a generated request url is made of.
MaxTokens == 4

\* Pieces request urls are assembled from: the prefix itself, a near miss of
\* it, separators, and continuations that do or do not start a new segment.
Tokens ==
    { <<"/", "a", "p", "i">>,
      <<"/", "a", "p">>,
      <<"/">>,
      <<"?">>,
      <<"2">>,
      <<"x">>,
      <<"a", "r", "y">>,
      <<"s", "c", "a", "n">> }

RECURSIVE Concats(_)
Concats(n) ==
    IF n = 0
    THEN {<<>>}
    ELSE LET shorter == Concats(n - 1)
         IN  shorter \cup {p \o t : p \in shorter, t \in Tokens}

\* Origin-form request targets: non-empty and starting with "/".
Paths == {p \in Concats(MaxTokens) : p # <<>> /\ Head(p) = "/"}

----------------------------------------------------------------------------
(* The Route Rule, vite.config.ts lines 12-17. *)

\* The key of the rule in server.proxy.
prefix == <<"/", "a", "p", "i">>

\* Host component of `target`.
targetHost == "tczswboifjsccnvhzq2vng2xm40kmrfb.lambda-url.ap-south-1.on.aws"

changeOrigin == TRUE

secure == TRUE

\* The regular expression /^\/api/ : the literal characters it matches ...
RewritePattern == <<"/", "a", "p", "i">>

\* ... its leading ^ assertion (no m flag: start of input only) ...
RewriteAnchored == TRUE

\* ... and the replacement string ''.
RewriteReplacement == <<>>

----------------------------------------------------------------------------
(* String.prototype.replace(regexp, string) for a regexp made of an        *)
(* optional ^ and literal characters, without the g flag.                  *)

\* Does the pattern match s starting at (1-based) position i?
MatchAt(s, pat, anchored, i) ==
    /\ anchored => i = 1
    /\ i + Len(pat) - 1 <= Len(s)
    /\ SubSeq(s, i, i + Len(pat) - 1) = pat

\* Position of the leftmost match, 0 when there is none.
FirstMatch(s, pat, anchored) ==
    LET hits == {i \in 1..(Len(s) + 1) : MatchAt(s, pat, anchored, i)}
    IN  IF hits = {}
        THEN 0
        ELSE CHOOSE i \in hits : \A j \in hits : i <= j

\* Only the leftmost match is replaced; no match returns s itself.
ReplaceFirst(s, pat, anchored, repl) ==
    LET m == FirstMatch(s, pat, anchored)
    IN  IF m = 0
        THEN s
        ELSE SubSeq(s, 1, m - 1) \o repl \o SubSeq(s, m + Len(pat), Len(s))

\* The same with the g flag: every match is replaced, left to right.
RECURSIVE ReplaceAll(_, _, _, _)
ReplaceAll(s, pat, anchored, repl) ==
    LET m == FirstMatch(s, pat, anchored)
    IN  IF m = 0
        THEN s
        ELSE SubSeq(s, 1, m - 1) \o repl
             \o ReplaceAll(SubSeq(s, m + Len(pat), Len(s)), pat, FALSE, repl)

\* A rewrite written as path.replace(/\/api/g, ''): unanchored and global.
rewrite_global(p) == ReplaceAll(p, RewritePattern, FALSE, RewriteReplacement)

\* A rewrite written as path.replace(/^\/api\/?/, ''): it also swallows the
\* separator that follows the prefix.
rewrite_with_separator(p) ==
    LET r == ReplaceFirst(p, RewritePattern, RewriteAnchored, RewriteReplacement)
    IN  IF r # p /\ r # <<>> /\ Head(r) = "/" THEN Tail(r) ELSE r

\* rewrite: (path) => path.replace(/^\/api/, '')
rewrite(p) == ReplaceFirst(p, RewritePattern, RewriteAnchored, RewriteReplacement)

----------------------------------------------------------------------------
(* The state machine: one request url, and the rewrite applied to it. *)

Init ==
    /\ path \in Paths
    /\ result = <<>>
    /\ called = FALSE

\* The proxy calls the rule's rewrite on the request url.
Rewrite ==
    /\ ~called
    /\ result' = rewrite(path)
    /\ called' = TRUE
    /\ UNCHANGED path

Next == Rewrite

Spec == Init /\ [][Next]_vars

----------------------------------------------------------------------------
(* Vocabulary of the properties. *)

StartsWith(s, pre) ==
    /\ Len(pre) <= Len(s)
    /\ SubSeq(s, 1, Len(pre)) = pre

\* The prefix is a whole leading path segment of s: s is the prefix itself, or
\* the character after the prefix is the segment separator.
PrefixIsSegment(s) ==
    /\ StartsWith(s, prefix)
    /\ Len(s) = Len(prefix) \/ s[Len(prefix) + 1] = "/"

\* Empty, or an absolute path.
WellFormed(s) == s = <<>> \/ Head(s) = "/"

Api == <<"/", "a", "p", "i">>
ApiScan == <<"/", "a", "p", "i", "/", "s", "c", "a", "n">>
ApiApiX == <<"/", "a", "p", "i", "/", "a", "p", "i", "/", "x">>
Api2X == <<"/", "a", "p", "i", "2", "/", "x">>

----------------------------------------------------------------------------
(* C1.  For every request path p that starts with the prefix '/api', the   *)
(* rewritten path is p with the leading '/api' removed exactly once and    *)
(* every other character unaltered and in order, that is p = '/api' \o     *)
(* rewritten; '/api/scan' gives '/scan', '/api' gives the empty path and   *)
(* '/api/api/x' gives '/api/x'.                                            *)
C1_PrefixStrippedOnce ==
    called =>
        /\ StartsWith(path, prefix) => path = prefix \o result
        /\ path = ApiScan => result = <<"/", "s", "c", "a", "n">>
        /\ path = Api => result = <<>>
        /\ path = ApiApiX => result = <<"/", "a", "p", "i", "/", "x">>

\* '/api/api/x' has been rewritten, to '/api/x'.
C1_Witness ==
    /\ called
    /\ path = ApiApiX
    /\ result = <<"/", "a", "p", "i", "/", "x">>

(* C10 as stated.  For every path that starts with '/api' the rewritten    *)
(* path is empty or begins with '/'.                                       *)
C10_AlwaysWellFormed ==
    (called /\ StartsWith(path, prefix)) => WellFormed(result)

(* C10, amended.  For every path that starts with '/api', the rewritten    *)
(* path is empty or begins with '/' exactly when '/api' is a whole leading *)
(* segment of the path (the path is '/api' or its next character is '/');  *)
(* '/apiary' and '/api2/x' are rewritten to 'ary' and '2/x'.               *)
C10_WellFormedIffSegment ==
    (called /\ StartsWith(path, prefix)) =>
        (WellFormed(result) <=> PrefixIsSegment(path))

\* '/api2/x' has been rewritten, to '2/x', which is no absolute path.
C10_Witness ==
    /\ called
    /\ path = Api2X
    /\ result = <<"2", "/", "x">>
    /\ ~WellFormed(result)

====
